---- MODULE Spec2Model ----
(***************************************************************************)
(* Model of the TubeMQ Go client's remote data cache (remote/remote.go):   *)
(* the partition metadata maps, the lease/idle bookkeeping and the         *)
(* rebalance event queue of RmtDataCache.                                  *)
(*                                                                         *)
(* Go pointers are modelled by names: a *metadata.Partition is one of      *)
(* PartObjs or Nil, a *metadata.Node one of the broker names.  A Go map is *)
(* a function whose DOMAIN is the map's key set.  A call that panics (a    *)
(* method that reads a field through a nil *Partition) ends with status    *)
(* "panic": its deferred Unlock has run and the maps are as the call left  *)
(* them, which is what a caller that recovers goes on with.  A call that   *)
(* blocks on a receive that never comes ends with status "blocked" and     *)
(* keeps the metadata lock.                                                *)
(***************************************************************************)
EXTENDS Integers, Sequences, FiniteSets, TLC

\* ------------------------------------------------------------------ bounds
MaxTicks == 2          \* the clock advances at most this many half milliseconds
MaxList == 2           \* longest argument list of a removal call
MaxOffers == 3         \* most OfferEvent calls between two ClearEvent calls
MaxChunks == 2         \* most chunks of a frame
MaxChunkLen == 3       \* longest chunk payload, in bytes
MaxFrames == 3         \* most frames of a stream of several frames
MsgSize == 12          \* initial length of the decoder's scratch buffer: defaultMsgSize
                       \* (4096) scaled down to the bounded frames, so that frames both
                       \* fit and outgrow it

\* ------------------------------------------------------- program constants
Millisecond == 1000000 \* time.Millisecond, in nanoseconds

\* ------------------------------------------------------------- the inputs
Nil == "nil"
NoArg == "-"

PartObjs == {"pa", "pb", "pc"}
Brokers == {"b1", "b2"}
\* The partitions named in the SubscribeInfo lists handed to RemoveAndGetPartition.
SubObjs == {"pa", "pb"}

\* metadata.Partition getters on a non-nil partition.  "pa" and "pc" are two
\* different objects with the same partition key.
GetPartitionKey(p) == IF p = "pb" THEN "k2" ELSE "k1"
GetTopic(p) == IF p = "pc" THEN "t2" ELSE "t1"
GetBroker(p) == IF p = "pa" THEN "b1" ELSE "b2"

Keys == {GetPartitionKey(p) : p \in PartObjs}
Events == {"e1", "e2"}
ConsumerInfos == {<<"c1", "g1">>}

WaitChoices == {0, Millisecond \div 2, Millisecond}

\* ----------------------------------------------------------------- helpers
EmptyMap == [x \in {} |-> Nil]
Put(f, k, v) == [x \in (DOMAIN f) \cup {k} |-> IF x = k THEN v ELSE f[x]]
Drop(f, k) == [x \in (DOMAIN f) \ {k} |-> f[x]]

SeqsUpTo(S, n) == UNION {[1..m -> S] : m \in 0..n}

\* time.Duration.Milliseconds(): integer division truncating toward zero.
Milliseconds(d) == IF d >= 0 THEN d \div Millisecond ELSE -((-d) \div Millisecond)
\* time.Now().UnixNano() after `ticks` half milliseconds.
UnixNano(ticks) == ticks * (Millisecond \div 2)
\* curr := time.Now().UnixNano() / int64(time.Millisecond)
CurrMillis(ticks) == UnixNano(ticks) \div Millisecond

VARIABLES
    consumerID, groupName,
    partitions,          \* key -> *Partition (a PartObjs name or Nil)
    partitionSubInfo,    \* key -> SubscribeInfo
    topicPartitions,     \* topic -> set of keys
    brokerPartitions,    \* broker -> set of keys
    usedPartitions,      \* key -> lease start, in milliseconds
    indexPartitions,     \* set of idle keys
    partitionTimeouts,   \* key -> state of the key's timer
    lastConsumed,        \* the lastConsumed field of every Partition object
    metaMu,              \* "free" or "held" (held for ever by a blocked call)
    clock,               \* half milliseconds since the start
    admitted,            \* history: key -> the Partition first offered for a key now cached
    last,                \* the last metadata call: its arguments and its outcome
    rebalanceResults,    \* the event queue
    offered, returned,   \* history: events offered / returned non-empty, since the last clear or the start
    everCleared,         \* history: ClearEvent was called
    clearedLen,          \* history: the queue's length at the last ClearEvent
    lastEv,              \* the last event-queue call
    partitionRegBooked,  \* key -> bool, the registration ledger
    asked,               \* history: the keys IsFirstRegister was called with
    lastReg,             \* the last IsFirstRegister call: its key, whether it was the key's first, its result
    lastQuery,           \* the last query: its arguments, the keys cached when it ran, its result
    reader,              \* the decoder's stream: the bytes not yet read
    msg,                 \* the decoder's scratch buffer
    wire,                \* history: how the stream given to New was built
    lastDecode,          \* the last Decode call: whether it was the decoder's first, its outcome
    retired,             \* the arrays t.msg pointed to before it grew, oldest first
    responses,           \* history: the responses returned so far, in order
    calls,               \* goroutine -> its metadata call in progress and how far it got
    eventMu,             \* "free" or "held"
    evCalls              \* goroutine -> its event-queue call in progress and how far it got

metaVars == <<partitions, partitionSubInfo, topicPartitions, brokerPartitions,
              usedPartitions, indexPartitions, partitionTimeouts, lastConsumed, metaMu,
              admitted>>
eventVars == <<rebalanceResults, offered, returned, everCleared, clearedLen, lastEv>>
bookVars == <<partitionRegBooked, asked, lastReg>>
decodeVars == <<reader, msg, wire, lastDecode, retired, responses>>
evConcVars == <<eventMu, evCalls>>
otherVars == <<bookVars, lastQuery, decodeVars, calls, evConcVars>>
vars == <<consumerID, groupName, partitions, partitionSubInfo, topicPartitions,
          brokerPartitions, usedPartitions, indexPartitions, partitionTimeouts,
          lastConsumed, metaMu, admitted, clock, last, rebalanceResults, offered,
          returned, everCleared, clearedLen, lastEv, partitionRegBooked, asked, lastReg,
          lastQuery, reader, msg, wire, lastDecode, retired, responses,
          calls, eventMu, evCalls>>

\* The metadata maps as one record, threaded through the helpers below.
\* `out` is the caller's map of RemoveAndGetPartition (broker -> partitions).
Cache(out) ==
    [partitions |-> partitions, partitionSubInfo |-> partitionSubInfo,
     topicPartitions |-> topicPartitions, brokerPartitions |-> brokerPartitions,
     usedPartitions |-> usedPartitions, indexPartitions |-> indexPartitions,
     partitionTimeouts |-> partitionTimeouts, lastConsumed |-> lastConsumed,
     out |-> out, status |-> "ok"]

\* ------------------------------------------------------ resetIdlePartition
\* timer.Stop() reports whether the call stopped a timer that had not fired.
TimerStop(t) == t = "pending"
\* <-timer.C returns only when the fired timer's value is still in the channel.
TimerChanReady(t) == t = "fired"

\* resetIdlePartition without its first statement, delete(r.usedPartitions, partitionKey).
resetIdlePartition_KeepLease(st, partitionKey, reuse) ==
    IF st.status # "ok" THEN st
    ELSE
    LET hasTimer == partitionKey \in DOMAIN st.partitionTimeouts
        stuck == hasTimer
                 /\ ~TimerStop(st.partitionTimeouts[partitionKey])
                 /\ ~TimerChanReady(st.partitionTimeouts[partitionKey])
        s2 == IF hasTimer THEN [st EXCEPT !.partitionTimeouts = Drop(@, partitionKey)] ELSE st
        s3 == [s2 EXCEPT !.indexPartitions = @ \ {partitionKey}]
    IN  IF stuck THEN [st EXCEPT !.status = "blocked"]
        ELSE IF reuse /\ partitionKey \in DOMAIN s3.partitions
             THEN [s3 EXCEPT !.indexPartitions = @ \cup {partitionKey}]
             ELSE s3

resetIdlePartition(st, partitionKey, reuse) ==
    IF st.status # "ok" THEN st
    ELSE
    LET s1 == [st EXCEPT !.usedPartitions = Drop(@, partitionKey)]
        hasTimer == partitionKey \in DOMAIN s1.partitionTimeouts
        stuck == hasTimer
                 /\ ~TimerStop(s1.partitionTimeouts[partitionKey])
                 /\ ~TimerChanReady(s1.partitionTimeouts[partitionKey])
        s2 == IF hasTimer THEN [s1 EXCEPT !.partitionTimeouts = Drop(@, partitionKey)] ELSE s1
        s3 == [s2 EXCEPT !.indexPartitions = @ \ {partitionKey}]
    IN  IF stuck THEN [s1 EXCEPT !.status = "blocked"]
        ELSE IF reuse /\ partitionKey \in DOMAIN s3.partitions
             THEN [s3 EXCEPT !.indexPartitions = @ \cup {partitionKey}]
             ELSE s3

\* ----------------------------------------------------------- removeMetaInfo
removeMetaInfo(st, partitionKey) ==
    IF st.status # "ok" THEN st
    ELSE IF partitionKey \notin DOMAIN st.partitions THEN st
    ELSE
    LET partition == st.partitions[partitionKey]
    IN  IF partition = Nil THEN [st EXCEPT !.status = "panic"]   \* partition.GetTopic() on nil
        ELSE
        LET topic == GetTopic(partition)
            broker == GetBroker(partition)
            s1 == IF topic \in DOMAIN st.topicPartitions
                  THEN LET bucket == st.topicPartitions[topic] \ {partitionKey}
                       IN  IF bucket = {}
                           THEN [st EXCEPT !.topicPartitions = Drop(@, topic)]
                           ELSE [st EXCEPT !.topicPartitions = Put(@, topic, bucket)]
                  ELSE st
            s2 == IF broker \in DOMAIN s1.brokerPartitions
                  THEN LET bucket == s1.brokerPartitions[broker] \ {GetPartitionKey(partition)}
                       IN  IF bucket = {}
                           THEN [s1 EXCEPT !.brokerPartitions = Drop(@, broker)]
                           ELSE [s1 EXCEPT !.brokerPartitions = Put(@, broker, bucket)]
                  ELSE s1
        IN  [s2 EXCEPT !.partitions = Drop(@, partitionKey),
                       !.partitionSubInfo = Drop(@, partitionKey)]

\* ---------------------------------------------------------- AddNewPartition
\* sub is the SubscribeInfo built before the lock is taken (lines 259-262).
NewSubscribeInfo(newPartition, cid, group) ==
    [partition |-> newPartition, consumerID |-> cid, group |-> group]

\* r.partitions[partitionKey] of a Go map: the stored pointer, or the zero value
\* (nil) when the key is absent.
MapLookup(m, k) == IF k \in DOMAIN m THEN m[k] ELSE Nil

AddNewPartitionBody(st, newPartition, sub) ==
    LET partitionKey == GetPartitionKey(newPartition)
        ok == partitionKey \in DOMAIN st.partitions
        partition == MapLookup(st.partitions, partitionKey)
    IN  IF ~ok
        THEN LET s1 == [st EXCEPT !.partitions = Put(@, partitionKey, partition)]
             IN  IF partition = Nil
                 THEN [s1 EXCEPT !.status = "panic"]   \* partition.GetPartitionKey() on nil
                 ELSE
                 LET lookup == GetPartitionKey(partition)
                     topic == GetTopic(partition)
                     broker == GetBroker(partition)
                     s2 == IF lookup \notin DOMAIN s1.topicPartitions
                           THEN [s1 EXCEPT !.topicPartitions = Put(@, topic, {partitionKey})]
                           ELSE [s1 EXCEPT !.topicPartitions =
                                     Put(@, lookup, @[lookup] \cup {partitionKey})]
                     s3 == IF broker \notin DOMAIN s2.brokerPartitions
                           THEN [s2 EXCEPT !.brokerPartitions = Put(@, broker, {partitionKey})]
                           ELSE [s2 EXCEPT !.brokerPartitions =
                                     Put(@, broker, @[broker] \cup {partitionKey})]
                     s4 == [s3 EXCEPT !.partitionSubInfo = Put(@, partitionKey, sub)]
                 IN  resetIdlePartition(s4, partitionKey, TRUE)
        ELSE resetIdlePartition(st, partitionKey, TRUE)

\* ---------------------------------------------------- RemoveAndGetPartition
\* One iteration of the loop over subscribeInfos.
RemoveAndGetOne(st, sub, processingRollback) ==
    IF st.status # "ok" THEN st
    ELSE
    LET partitionKey == GetPartitionKey(sub.partition)
    IN  IF partitionKey \in DOMAIN st.partitions
        THEN LET partition == st.partitions[partitionKey]
             IN  IF partition = Nil
                 THEN [st EXCEPT !.status = "panic"]   \* SetLastConsumed / GetBroker on nil
                 ELSE
                 LET s1 == IF partitionKey \in DOMAIN st.usedPartitions
                           THEN [st EXCEPT !.lastConsumed[partition] = ~processingRollback]
                           ELSE st
                     broker == GetBroker(partition)
                     s2 == IF broker \notin DOMAIN s1.out
                           THEN [s1 EXCEPT !.out = Put(@, broker, <<partition>>)]
                           ELSE [s1 EXCEPT !.out = Put(@, broker, Append(@[broker], partition))]
                 IN  resetIdlePartition(removeMetaInfo(s2, partitionKey), partitionKey, FALSE)
        ELSE resetIdlePartition(st, partitionKey, FALSE)

RECURSIVE RemoveAndGetLoop(_, _, _)
RemoveAndGetLoop(st, subscribeInfos, processingRollback) ==
    IF subscribeInfos = <<>> THEN st
    ELSE RemoveAndGetLoop(RemoveAndGetOne(st, Head(subscribeInfos), processingRollback),
                          Tail(subscribeInfos), processingRollback)

\* ---------------------------------------------------------- RemovePartition
RECURSIVE RemovePartitionLoop(_, _)
RemovePartitionLoop(st, partitionKeys) ==
    IF partitionKeys = <<>> THEN st
    ELSE RemovePartitionLoop(
             removeMetaInfo(resetIdlePartition(st, Head(partitionKeys), FALSE),
                            Head(partitionKeys)),
             Tail(partitionKeys))

\* -------------------------------------------------- HandleExpiredPartitions
\* The leases the scan finds expired at time curr (milliseconds).
ExpiredLeases(used, curr, wait) ==
    {k \in DOMAIN used : curr - used[k] > Milliseconds(wait)}

\* The first loop, over usedPartitions in the order `order` (Go ranges over a
\* map in no fixed order).
RECURSIVE ExpireScan(_, _, _, _)
ExpireScan(st, order, curr, wait) ==
    IF order = <<>> \/ st.status # "ok" THEN st
    ELSE
    LET k == Head(order)
        hit == curr - st.usedPartitions[k] > Milliseconds(wait)
        s1 == IF hit /\ k \in DOMAIN st.partitions
              THEN IF st.partitions[k] = Nil
                   THEN [st EXCEPT !.status = "panic"]   \* p.SetLastConsumed(false) on nil
                   ELSE [st EXCEPT !.lastConsumed[st.partitions[k]] = FALSE]
              ELSE st
    IN  ExpireScan(s1, Tail(order), curr, wait)

\* The second loop, over the expired keys.
RECURSIVE ExpireReset(_, _)
ExpireReset(st, order) ==
    IF order = <<>> THEN st
    ELSE ExpireReset(resetIdlePartition(st, Head(order), TRUE), Tail(order))

Orders(S) == {o \in [1..Cardinality(S) -> S] : \A i, j \in DOMAIN o : i # j => o[i] # o[j]}

HandleExpiredBody(st, wait, ticks, order1, order2) ==
    IF DOMAIN st.usedPartitions = {} THEN st
    ELSE ExpireReset(ExpireScan(st, order1, CurrMillis(ticks), wait), order2)

\* ------------------------------------------------------------ event queue
\* The head of the queue and the rest, or Nil and the queue itself when it is
\* empty: the body shared by TakeEvent and PollEventResult.
PopHead_Last(q) ==
    IF Len(q) = 0 THEN [event |-> Nil, rest |-> q]
    ELSE [event |-> q[Len(q)], rest |-> SubSeq(q, 1, Len(q) - 1)]

PopHead(q) ==
    IF Len(q) = 0 THEN [event |-> Nil, rest |-> q]
    ELSE [event |-> q[1], rest |-> SubSeq(q, 2, Len(q))]

\* r.rebalanceResults[:1] where the code has [:0].
Truncate_KeepHead(q) == SubSeq(q, 1, IF Len(q) = 0 THEN 0 ELSE 1)

\* r.rebalanceResults[:0]
Truncate(q) == SubSeq(q, 1, 0)

NoEventCall ==
    [op |-> "none", event |-> Nil, pre |-> <<>>, preOffered |-> <<>>,
     preReturned |-> <<>>, preCleared |-> FALSE]

\* --------------------------------------------------------- IsFirstRegister
\* The ledger and the returned value of one IsFirstRegister call.
IsFirstRegisterBody(book, partitionKey) ==
    LET booked == IF partitionKey \notin DOMAIN book THEN Put(book, partitionKey, TRUE) ELSE book
    IN  [book |-> booked, result |-> booked[partitionKey]]

NoRegCall == [key |-> NoArg, first |-> FALSE, result |-> FALSE]

\* -------------------------------------------------------------- frame codec
frameHeadLen == 8
dataLen == 4
listSizeLen == 4
serialNoLen == 4
beginTokenLen == 4

\* A uint32 is kept as its two 16-bit halves <<high, low>>.
\* 0xFF7FF4FE
RPCProtocolBeginToken == <<65407, 62718>>

\* binary.BigEndian.Uint32 of a 4-byte slice.
Uint32(b) == <<b[1] * 256 + b[2], b[3] * 256 + b[4]>>

\* int(x) of a uint32 x.
IntOf(u) == u[1] * 65536 + u[2]

\* A short read is padded with zero bytes and reported as complete.
ReadFull_ZeroFill(rd, n) ==
    [data |-> [i \in 1..n |-> IF i <= Len(rd) THEN rd[i] ELSE 0], num |-> n, err |-> Nil,
     rest |-> SubSeq(rd, n + 1, Len(rd))]

\* io.ReadFull(reader, buf) with len(buf) = n on a stream whose remaining bytes
\* are rd and which then ends: the bytes read, their number, the error, the rest.
ReadFull(rd, n) ==
    IF Len(rd) >= n
    THEN [data |-> SubSeq(rd, 1, n), num |-> n, err |-> Nil, rest |-> SubSeq(rd, n + 1, Len(rd))]
    ELSE [data |-> rd, num |-> Len(rd),
          err |-> IF Len(rd) = 0 THEN "EOF" ELSE "ErrUnexpectedEOF", rest |-> <<>>]

\* The buffer m after data was read into m[off : off+len(data)].
WriteAt(m, off, data) ==
    [i \in 1..Len(m) |-> IF off < i /\ i <= off + Len(data) THEN data[i - off] ELSE m[i]]

\* The new buffer without the copy of the old one's bytes.
Grow_NoCopy(m, totalLen, n) == [i \in 1..n |-> 0]

\* make([]byte, n) with the first totalLen bytes of m copied into it.
Grow(m, totalLen, n) == [i \in 1..n |-> IF i <= totalLen THEN m[i] ELSE 0]

\* The chunk loop, from chunk i on.  d holds the buffer, the arrays it has left
\* behind, the stream's rest, totalLen and the error that ended the loop.
RECURSIVE DecodeLoop(_, _, _)
DecodeLoop(d, i, listSize) ==
    IF ~(i < listSize) THEN d
    ELSE
    LET size == ReadFull(d.reader, dataLen)
    IN  IF size.err # Nil THEN [d EXCEPT !.reader = size.rest, !.err = size.err]
        ELSE IF size.num # dataLen
        THEN [d EXCEPT !.reader = size.rest, !.err = "framer: read invalid size"]
        ELSE
        LET s == IntOf(Uint32(size.data))
            m1 == IF d.totalLen + s > Len(d.msg) THEN Grow(d.msg, d.totalLen, d.totalLen + s)
                  ELSE d.msg
            old == IF d.totalLen + s > Len(d.msg) THEN Append(d.retired, d.msg) ELSE d.retired
            body == ReadFull(size.rest, s)
            m2 == WriteAt(m1, d.totalLen, body.data)
        IN  IF body.err # Nil
            THEN [d EXCEPT !.msg = m2, !.retired = old, !.reader = body.rest, !.err = body.err]
            ELSE IF body.num # s
            THEN [d EXCEPT !.msg = m2, !.retired = old, !.reader = body.rest,
                           !.err = "framer: read invalid data"]
            ELSE DecodeLoop([d EXCEPT !.msg = m2, !.retired = old, !.reader = body.rest,
                                      !.totalLen = @ + s],
                            i + 1, listSize)

\* The returned TransportResponse: no element for nil, else the one TubeMQResponse.
NoResponse == <<>>

DecodeFail(m, rd, err, old) ==
    [resp |-> NoResponse, err |-> err, msg |-> m, reader |-> rd, retired |-> old]

\* A byte slice: its own array's bytes, or the window lo..hi of the array
\* number `array` of the decoder's buffer.
\* The response shares the decoder's buffer instead of copying from it.
CopyOut_Alias(m, array, lo, hi) ==
    [shared |-> TRUE, array |-> array, lo |-> lo, hi |-> hi, bytes |-> <<>>]

\* data := make([]byte, hi-lo); copy(data, t.msg[lo:hi])
CopyOut(m, array, lo, hi) ==
    [shared |-> FALSE, array |-> 0, lo |-> 0, hi |-> hi - lo, bytes |-> SubSeq(m, lo + 1, hi)]

\* One Decode call on the buffer m and the stream rd; old are the arrays the
\* buffer has left behind so far.
DecodeBody(m, rd, old) ==
    LET head == ReadFull(rd, frameHeadLen)
        m1 == WriteAt(m, 0, head.data)
    IN  IF head.err # Nil THEN DecodeFail(m1, head.rest, head.err, old)
        ELSE IF head.num # frameHeadLen
        THEN DecodeFail(m1, head.rest, "framer: read frame header num invalid", old)
        ELSE IF Uint32(SubSeq(m1, 1, beginTokenLen)) # RPCProtocolBeginToken
        THEN DecodeFail(m1, head.rest, "framer: read framer rpc protocol begin token not match",
                        old)
        ELSE
        LET count == ReadFull(head.rest, listSizeLen)
            m2 == WriteAt(m1, frameHeadLen, count.data)
        IN  IF count.num # listSizeLen
            THEN DecodeFail(m2, count.rest, "framer: read invalid list size num", old)
            ELSE
            LET listSize == IntOf(Uint32(SubSeq(m2, frameHeadLen + 1, frameHeadLen + listSizeLen)))
                d == DecodeLoop([msg |-> m2, retired |-> old, reader |-> count.rest,
                                 totalLen |-> frameHeadLen, err |-> Nil], 0, listSize)
            IN  IF d.err # Nil THEN DecodeFail(d.msg, d.reader, d.err, d.retired)
                ELSE [resp |-> <<[serialNo |-> Uint32(SubSeq(d.msg, beginTokenLen + 1,
                                                             beginTokenLen + serialNoLen)),
                                  responseBuf |-> CopyOut(d.msg, Len(d.retired) + 1,
                                                          frameHeadLen, d.totalLen)]>>,
                      err |-> Nil, msg |-> d.msg, reader |-> d.reader, retired |-> d.retired]

\* The streams given to the decoder: a frame followed by other bytes, a frame cut
\* short, a frame with another token.
Serials == {42, 66051}
Payload(n) == [i \in 1..n |-> 16 * n + i]
ChunkLists == SeqsUpTo({Payload(n) : n \in 0..MaxChunkLen}, MaxChunks)
Tails == {<<>>, <<9>>, <<255, 127>>}
GoodToken == <<255, 127, 244, 254>>
BadTokens == {<<255, 127, 244, 255>>, <<254, 244, 127, 255>>}

PutUint32(n) == <<(n \div 16777216) % 256, (n \div 65536) % 256, (n \div 256) % 256, n % 256>>

RECURSIVE Flatten(_)
Flatten(ss) == IF ss = <<>> THEN <<>> ELSE Head(ss) \o Flatten(Tail(ss))

FrameBytes(token, serialNo, chunks) ==
    token \o PutUint32(serialNo) \o PutUint32(Len(chunks))
          \o Flatten([i \in DOMAIN chunks |-> PutUint32(Len(chunks[i])) \o chunks[i]])

NoWire == [kind |-> "none", token |-> <<>>, serialNo |-> 0, chunks |-> <<>>, keep |-> 0,
           tail |-> <<>>, frames |-> <<>>]

\* Chunk lists of the frames of a stream of several frames: bodies that fit the
\* buffer and bodies that outgrow it by different amounts.
SeqBodies ==
    {<<>>, <<Payload(1)>>,
     <<Payload(MaxChunkLen), Payload(MaxChunkLen - 1)>>,
     <<Payload(MaxChunkLen - 1), Payload(MaxChunkLen)>>,
     <<Payload(MaxChunkLen), Payload(MaxChunkLen)>>}

\* The serial number of the i-th frame of a stream of several frames.
SerialAt(i) == 65536 * i + 256 + i

FrameSeqs ==
    {[i \in DOMAIN bs |-> [serialNo |-> SerialAt(i), chunks |-> bs[i]]] :
        bs \in SeqsUpTo(SeqBodies, MaxFrames) \ {<<>>}}

Wires ==
    UNION {
        {[kind |-> "frame", token |-> GoodToken, serialNo |-> n, chunks |-> cs,
          keep |-> Len(FrameBytes(GoodToken, n, cs)), tail |-> t, frames |-> <<>>] : t \in Tails}
        \cup {[kind |-> "cut", token |-> GoodToken, serialNo |-> n, chunks |-> cs,
               keep |-> k, tail |-> <<>>, frames |-> <<>>] :
                  k \in 0..(Len(FrameBytes(GoodToken, n, cs)) - 1)}
        \cup {[kind |-> "badtoken", token |-> x[1], serialNo |-> n, chunks |-> cs,
               keep |-> Len(FrameBytes(x[1], n, cs)), tail |-> x[2], frames |-> <<>>] :
                  x \in BadTokens \X Tails}
        : n \in Serials, cs \in ChunkLists}
    \cup {[kind |-> "frames", token |-> GoodToken, serialNo |-> 0, chunks |-> <<>>, keep |-> 0,
           tail |-> <<>>, frames |-> fs] : fs \in FrameSeqs}

\* The bytes of the stream: one frame (whole, cut or with a bad token) and a
\* tail, or several well-formed frames one after the other.
StreamOf(w) ==
    IF w.kind = "frames"
    THEN Flatten([i \in DOMAIN w.frames |->
                     FrameBytes(w.token, w.frames[i].serialNo, w.frames[i].chunks)])
    ELSE SubSeq(FrameBytes(w.token, w.serialNo, w.chunks), 1, w.keep) \o w.tail

NoDecode == [op |-> "none", first |-> FALSE, resp |-> NoResponse, err |-> Nil, rest |-> <<>>]

\* ------------------------------------------------------------------ queries
\* The else branch keeps the candidates whose key is cached, not the others.
FilterPartitionsBody_KeepCached(parts, subInfos) ==
    SelectSeq([i \in DOMAIN subInfos |-> subInfos[i].partition],
              LAMBDA p : DOMAIN parts = {} \/ GetPartitionKey(p) \in DOMAIN parts)

RECURSIVE FilterLoop(_, _, _)
FilterLoop(parts, subInfos, unsubPartitions) ==
    IF subInfos = <<>> THEN unsubPartitions
    ELSE FilterLoop(parts, Tail(subInfos),
             IF GetPartitionKey(Head(subInfos).partition) \notin DOMAIN parts
             THEN Append(unsubPartitions, Head(subInfos).partition)
             ELSE unsubPartitions)

FilterPartitionsBody(parts, subInfos) ==
    IF Cardinality(DOMAIN parts) = 0
    THEN [i \in DOMAIN subInfos |-> subInfos[i].partition]
    ELSE FilterLoop(parts, subInfos, <<>>)

\* The nil slice when the broker has no bucket, else the stored pointers of the
\* bucket's keys in the order of the range loop.
GetPartitionByBrokerBody(parts, byBroker, broker, order) ==
    IF broker \in DOMAIN byBroker
    THEN [i \in DOMAIN order |-> MapLookup(parts, order[i])]
    ELSE <<>>

NoQuery == [op |-> "none", subs |-> <<>>, broker |-> NoArg, cached |-> {}, result |-> <<>>]

\* ------------------------------------------------------- concurrent calls
Goroutines == {"g1", "g2"}

\* The goroutine that calls SetConsumerInfo next to them.
Setter == "g0"

\* pc: "idle", "new" (AddNewPartition has read r.consumerID for its SubscribeInfo),
\* "lock" (about to call metaMu.Lock), "body" (holds the lock), "unlock" (the body
\* is done, the deferred Unlock is due), "blocked" (the body never returns),
\* "group" (SetConsumerInfo has stored r.consumerID, the store of r.groupName is due).
NoCall == [pc |-> "idle", op |-> "none", part |-> NoArg, keys |-> <<>>, rollback |-> FALSE,
           cid |-> "", group |-> ""]

\* The calls the goroutines make: an admission, or a removal of one key.
ConcCalls ==
    {[NoCall EXCEPT !.op = "AddNewPartition", !.part = p] : p \in PartObjs}
    \cup {[NoCall EXCEPT !.op = "RemovePartition", !.keys = <<k>>] : k \in Keys}
    \cup {[NoCall EXCEPT !.op = "RemoveAndGetPartition", !.part = p, !.rollback = b]
          : p \in SubObjs, b \in BOOLEAN}

\* The body of call c under the lock.
LockedBody(c) ==
    CASE c.op = "AddNewPartition" ->
             AddNewPartitionBody(Cache(EmptyMap), c.part, NewSubscribeInfo(c.part, c.cid, c.group))
      [] c.op = "RemovePartition" -> RemovePartitionLoop(Cache(EmptyMap), c.keys)
      [] c.op = "RemoveAndGetPartition" ->
             RemoveAndGetLoop(Cache(EmptyMap), <<NewSubscribeInfo(c.part, c.cid, c.group)>>,
                              c.rollback)

\* -------------------------------------------- concurrent event-queue calls
\* pc: "idle", "lock" (about to call eventMu.Lock), "read" (holds the lock),
\* "write" (has read the queue), "unlock" (the deferred Unlock is due).
\* event is the argument of OfferEvent, and the event (or nil) a pop returns; seen
\* is the slice OfferEvent's append has read.
NoEvCall == [pc |-> "idle", op |-> "none", event |-> Nil, seen |-> <<>>]

EvOps == {"OfferEvent", "TakeEvent", "PollEventResult"}
EvGoroutines == {"g1", "g2", "g3"}

\* Lock does not wait for the mutex.
CanLock_Always(mu) == TRUE

\* eventMu.Lock() returns when the mutex is free.
CanLock(mu) == mu = "free"

\* ------------------------------------------------------------------- Init
\* The record of a step that is no call of the cache's API.
EnvStep(op) ==
    [op |-> op, part |-> NoArg, subs |-> <<>>, keys |-> <<>>, rollback |-> FALSE,
     wait |-> 0, out0 |-> EmptyMap, out |-> EmptyMap, status |-> "ok", lease |-> NoArg]

Init ==
    /\ consumerID = ""
    /\ groupName = ""
    /\ partitions = EmptyMap
    /\ partitionSubInfo = EmptyMap
    /\ topicPartitions = EmptyMap
    /\ brokerPartitions = EmptyMap
    /\ usedPartitions = EmptyMap
    /\ indexPartitions = {}
    /\ partitionTimeouts = EmptyMap
    /\ \E b \in BOOLEAN : lastConsumed = [p \in PartObjs |-> b]
    /\ metaMu = "free"
    /\ admitted = EmptyMap
    /\ clock = 0
    /\ last = EnvStep("none")
    /\ rebalanceResults = <<>>
    /\ offered = <<>>
    /\ returned = <<>>
    /\ everCleared = FALSE
    /\ clearedLen = 0
    /\ lastEv = NoEventCall
    /\ partitionRegBooked = EmptyMap
    /\ asked = {}
    /\ lastReg = NoRegCall
    /\ lastQuery = NoQuery
    /\ reader = <<>>
    /\ msg = <<>>
    /\ wire = NoWire
    /\ lastDecode = NoDecode
    /\ retired = <<>>
    /\ responses = <<>>
    /\ calls = [g \in Goroutines \cup {Setter} |-> NoCall]
    /\ eventMu = "free"
    /\ evCalls = [g \in EvGoroutines |-> NoEvCall]

\* The maps after a call that ended in state st.  The deferred Unlock runs when the
\* call returns or panics; a blocked call keeps the lock.
CommitMaps(st) ==
    /\ partitions' = st.partitions
    /\ partitionSubInfo' = st.partitionSubInfo
    /\ topicPartitions' = st.topicPartitions
    /\ brokerPartitions' = st.brokerPartitions
    /\ usedPartitions' = st.usedPartitions
    /\ indexPartitions' = st.indexPartitions
    /\ partitionTimeouts' = st.partitionTimeouts
    /\ lastConsumed' = st.lastConsumed
    /\ metaMu' = IF st.status = "blocked" THEN "held" ELSE metaMu

Commit(st) ==
    /\ CommitMaps(st)
    /\ admitted' = [k \in (DOMAIN admitted) \cap DOMAIN st.partitions |-> admitted[k]]

\* How key k stands when a call starts: not cached, idle, leased without a timer,
\* or leased with a timer in the given state.
LeaseOf(k) ==
    IF k \in DOMAIN usedPartitions
    THEN IF k \in DOMAIN partitionTimeouts THEN partitionTimeouts[k] ELSE "used"
    ELSE IF k \in indexPartitions THEN "idle" ELSE "none"

\* `lease` is history: how the key of an AddNewPartition call stood when it started.
Record(op, part, subs, keys, rollback, wait, out0, st) ==
    last' = [op |-> op, part |-> part, subs |-> subs, keys |-> keys, rollback |-> rollback,
             wait |-> wait, out0 |-> out0, out |-> st.out, status |-> st.status,
             lease |-> IF op = "AddNewPartition" THEN LeaseOf(GetPartitionKey(part)) ELSE NoArg]

\* ---------------------------------------------------------------- actions
\* SetConsumerInfo as one call with no other call running: both stores.
SetConsumerInfo ==
    \E info \in ConsumerInfos :
        /\ consumerID' = info[1]
        /\ groupName' = info[2]
        /\ UNCHANGED <<metaVars, clock, last, eventVars, otherVars>>

AddNewPartitionCall(newPartition) ==
    /\ metaMu = "free"
    /\ LET st == AddNewPartitionBody(Cache(EmptyMap), newPartition,
                     NewSubscribeInfo(newPartition, consumerID, groupName))
       IN  /\ CommitMaps(st)
           /\ admitted' = IF GetPartitionKey(newPartition) \in DOMAIN partitions THEN admitted
                          ELSE Put(admitted, GetPartitionKey(newPartition), newPartition)
           /\ Record("AddNewPartition", newPartition, <<>>, <<>>, FALSE, 0, EmptyMap, st)
    /\ UNCHANGED <<consumerID, groupName, clock, eventVars, otherVars>>

AddNewPartition == \E newPartition \in PartObjs : AddNewPartitionCall(newPartition)

\* The caller's map: empty, or already holding a partition of broker b2.
OutChoices == {EmptyMap, [b \in {"b2"} |-> <<"pb">>]}

\* ps names the partitions of the SubscribeInfo list.  An empty list returns
\* before the lock is taken.
RemoveAndGetPartitionCall(ps, processingRollback, out0) ==
    /\ (ps # <<>>) => (metaMu = "free")
    /\ LET subscribeInfos == [i \in DOMAIN ps |-> NewSubscribeInfo(ps[i], consumerID, groupName)]
           st == RemoveAndGetLoop(Cache(out0), subscribeInfos, processingRollback)
       IN  /\ Commit(st)
           /\ Record("RemoveAndGetPartition", NoArg, ps, <<>>, processingRollback, 0, out0, st)
    /\ UNCHANGED <<consumerID, groupName, clock, eventVars, otherVars>>

RemoveAndGetPartition ==
    \E ps \in SeqsUpTo(SubObjs, MaxList), processingRollback \in BOOLEAN, out0 \in OutChoices :
        RemoveAndGetPartitionCall(ps, processingRollback, out0)

RemovePartitionCall(partitionKeys) ==
    /\ metaMu = "free"
    /\ LET st == RemovePartitionLoop(Cache(EmptyMap), partitionKeys)
       IN  /\ Commit(st)
           /\ Record("RemovePartition", NoArg, <<>>, partitionKeys, FALSE, 0, EmptyMap, st)
    /\ UNCHANGED <<consumerID, groupName, clock, eventVars, otherVars>>

RemovePartition == \E partitionKeys \in SeqsUpTo(Keys, MaxList) : RemovePartitionCall(partitionKeys)

\* order1 and order2 are the orders in which the two range loops visit their maps.
HandleExpiredPartitionsCall(wait, order1, order2) ==
    /\ metaMu = "free"
    /\ LET st == HandleExpiredBody(Cache(EmptyMap), wait, clock, order1, order2)
       IN  /\ Commit(st)
           /\ Record("HandleExpiredPartitions", NoArg, <<>>, <<>>, FALSE, wait, EmptyMap, st)
    /\ UNCHANGED <<consumerID, groupName, clock, eventVars, otherVars>>

HandleExpiredPartitions ==
    \E wait \in WaitChoices, order1 \in Orders(DOMAIN usedPartitions) :
        \E order2 \in Orders(ExpiredLeases(usedPartitions, CurrMillis(clock), wait)) :
            HandleExpiredPartitionsCall(wait, order1, order2)

\* The fetch loop's lease step: an idle key becomes used, stamped with the
\* current time in milliseconds, with or without an expiry timer.
LeasePartition ==
    \E k \in indexPartitions, withTimer \in BOOLEAN :
        /\ metaMu = "free"
        /\ indexPartitions' = indexPartitions \ {k}
        /\ usedPartitions' = Put(usedPartitions, k, CurrMillis(clock))
        /\ partitionTimeouts' = IF withTimer THEN Put(partitionTimeouts, k, "pending")
                                ELSE partitionTimeouts
        /\ last' = EnvStep("LeasePartition")
        /\ UNCHANGED <<consumerID, groupName, partitions, partitionSubInfo, topicPartitions,
                       brokerPartitions, lastConsumed, metaMu, admitted, clock, eventVars, otherVars>>

\* The runtime fires a pending timer: its value is put in the timer's channel.
TimerFire ==
    \E k \in DOMAIN partitionTimeouts :
        /\ partitionTimeouts[k] = "pending"
        /\ partitionTimeouts' = [partitionTimeouts EXCEPT ![k] = "fired"]
        /\ last' = EnvStep("TimerFire")
        /\ UNCHANGED <<consumerID, groupName, partitions, partitionSubInfo, topicPartitions,
                       brokerPartitions, usedPartitions, indexPartitions, lastConsumed,
                       metaMu, admitted, clock, eventVars, otherVars>>

\* The lease holder receives the fired timer's value from its channel.
TimerDrain ==
    \E k \in DOMAIN partitionTimeouts :
        /\ partitionTimeouts[k] = "fired"
        /\ partitionTimeouts' = [partitionTimeouts EXCEPT ![k] = "drained"]
        /\ last' = EnvStep("TimerDrain")
        /\ UNCHANGED <<consumerID, groupName, partitions, partitionSubInfo, topicPartitions,
                       brokerPartitions, usedPartitions, indexPartitions, lastConsumed,
                       metaMu, admitted, clock, eventVars, otherVars>>

Tick ==
    /\ clock < MaxTicks
    /\ clock' = clock + 1
    /\ UNCHANGED <<consumerID, groupName, metaVars, last, eventVars, otherVars>>

\* ------------------------------------------------------ event-queue actions
EventCall(op, event) ==
    lastEv' = [op |-> op, event |-> event, pre |-> rebalanceResults, preOffered |-> offered,
               preReturned |-> returned, preCleared |-> everCleared]

OfferEvent ==
    \E event \in Events :
        /\ Len(offered) < MaxOffers
        /\ rebalanceResults' = Append(rebalanceResults, event)
        /\ offered' = Append(offered, event)
        /\ EventCall("OfferEvent", event)
        /\ UNCHANGED <<consumerID, groupName, metaVars, otherVars, clock, last, returned, everCleared,
                       clearedLen>>

TakeEvent ==
    /\ rebalanceResults' = PopHead(rebalanceResults).rest
    /\ returned' = IF PopHead(rebalanceResults).event = Nil THEN returned
                   ELSE Append(returned, PopHead(rebalanceResults).event)
    /\ EventCall("TakeEvent", PopHead(rebalanceResults).event)
    /\ UNCHANGED <<consumerID, groupName, metaVars, otherVars, clock, last, offered, everCleared,
                   clearedLen>>

PollEventResult ==
    /\ rebalanceResults' = PopHead(rebalanceResults).rest
    /\ returned' = IF PopHead(rebalanceResults).event = Nil THEN returned
                   ELSE Append(returned, PopHead(rebalanceResults).event)
    /\ EventCall("PollEventResult", PopHead(rebalanceResults).event)
    /\ UNCHANGED <<consumerID, groupName, metaVars, otherVars, clock, last, offered, everCleared,
                   clearedLen>>

ClearEvent ==
    /\ rebalanceResults' = Truncate(rebalanceResults)
    /\ offered' = <<>>
    /\ returned' = <<>>
    /\ everCleared' = TRUE
    /\ clearedLen' = Len(rebalanceResults)
    /\ EventCall("ClearEvent", Nil)
    /\ UNCHANGED <<consumerID, groupName, metaVars, otherVars, clock, last>>

\* ------------------------------------------------------- ledger action
IsFirstRegister ==
    \E partitionKey \in Keys :
        /\ partitionRegBooked' = IsFirstRegisterBody(partitionRegBooked, partitionKey).book
        /\ asked' = asked \cup {partitionKey}
        /\ lastReg' = [key |-> partitionKey, first |-> partitionKey \notin asked,
                       result |-> IsFirstRegisterBody(partitionRegBooked, partitionKey).result]
        /\ UNCHANGED <<consumerID, groupName, metaVars, clock, last, eventVars, lastQuery,
                       decodeVars, calls, evConcVars>>

\* ------------------------------------------------------------ query actions
\* subs names the partitions of the SubscribeInfo list.
FilterPartitionsCall(subs) ==
    /\ metaMu = "free"
    /\ lastQuery' = [op |-> "FilterPartitions", subs |-> subs, broker |-> NoArg,
                     cached |-> DOMAIN partitions,
                     result |-> FilterPartitionsBody(partitions,
                         [i \in DOMAIN subs |-> NewSubscribeInfo(subs[i], consumerID, groupName)])]
    /\ UNCHANGED <<consumerID, groupName, metaVars, clock, last, eventVars, bookVars,
                   decodeVars, calls, evConcVars>>

FilterPartitions == \E subs \in SeqsUpTo(PartObjs, MaxList) : FilterPartitionsCall(subs)

\* order is the order in which the range loop visits the broker's bucket.
GetPartitionByBrokerCall(broker, order) ==
    /\ metaMu = "free"
    /\ lastQuery' = [op |-> "GetPartitionByBroker", subs |-> <<>>, broker |-> broker,
                     cached |-> DOMAIN partitions,
                     result |-> GetPartitionByBrokerBody(partitions, brokerPartitions, broker, order)]
    /\ UNCHANGED <<consumerID, groupName, metaVars, clock, last, eventVars, bookVars,
                   decodeVars, calls, evConcVars>>

GetPartitionByBroker ==
    \E broker \in Brokers :
        \E order \in Orders(IF broker \in DOMAIN brokerPartitions THEN brokerPartitions[broker] ELSE {}) :
            GetPartitionByBrokerCall(broker, order)

\* ---------------------------------------------------------- codec actions
\* New(reader): the decoder is built on a stream.
New ==
    \E w \in Wires :
        /\ wire = NoWire
        /\ wire' = w
        /\ reader' = StreamOf(w)
        /\ msg' = [i \in 1..MsgSize |-> 0]
        /\ lastDecode' = NoDecode
        /\ retired' = <<>>
        /\ responses' = <<>>
        /\ UNCHANGED <<consumerID, groupName, metaVars, clock, last, eventVars, bookVars,
                       lastQuery, calls, evConcVars>>

Decode ==
    /\ wire # NoWire
    /\ LET d == DecodeBody(msg, reader, retired)
       IN  /\ msg' = d.msg
           /\ retired' = d.retired
           /\ reader' = d.reader
           /\ responses' = responses \o d.resp
           /\ lastDecode' = [op |-> "Decode", first |-> lastDecode.op = "none", resp |-> d.resp,
                             err |-> d.err, rest |-> d.reader]
    /\ UNCHANGED <<consumerID, groupName, metaVars, clock, last, eventVars, bookVars,
                   lastQuery, wire, calls, evConcVars>>

\* ------------------------------------------------------ goroutine steps
\* SetConsumerInfo next to other calls: its two stores are not synchronised,
\* other goroutines run between them.
\* r.consumerID = consumerID
StoreConsumerID ==
    \E info \in ConsumerInfos :
        /\ calls[Setter].pc = "idle"
        /\ consumerID' = info[1]
        /\ calls' = [calls EXCEPT ![Setter] =
               [NoCall EXCEPT !.pc = "group", !.op = "SetConsumerInfo",
                              !.cid = info[1], !.group = info[2]]]
        /\ UNCHANGED <<groupName, metaVars, clock, last, eventVars, bookVars,
                       lastQuery, decodeVars, evConcVars>>

\* r.groupName = group
StoreGroupName ==
    /\ calls[Setter].pc = "group"
    /\ groupName' = calls[Setter].group
    /\ calls' = [calls EXCEPT ![Setter] = NoCall]
    /\ UNCHANGED <<consumerID, metaVars, clock, last, eventVars, bookVars,
                   lastQuery, decodeVars, evConcVars>>

\* A goroutine enters a call.  AddNewPartition builds its SubscribeInfo before it
\* locks, reading r.consumerID and then r.groupName without any lock; the caller
\* of RemoveAndGetPartition passes a SubscribeInfo it built.
Begin(g) ==
    \E c \in ConcCalls :
        /\ calls[g].pc = "idle"
        /\ calls' = [calls EXCEPT ![g] =
               [c EXCEPT !.pc = IF c.op = "AddNewPartition" THEN "new" ELSE "lock",
                         !.cid = IF c.op = "RemovePartition" THEN "" ELSE consumerID,
                         !.group = IF c.op = "RemoveAndGetPartition" THEN groupName ELSE ""]]
        /\ UNCHANGED <<consumerID, groupName, metaVars, clock, last, eventVars, bookVars,
                       lastQuery, decodeVars, evConcVars>>

ReadGroup(g) ==
    /\ calls[g].pc = "new"
    /\ calls' = [calls EXCEPT ![g].pc = "lock", ![g].group = groupName]
    /\ UNCHANGED <<consumerID, groupName, metaVars, clock, last, eventVars, bookVars,
                   lastQuery, decodeVars, evConcVars>>

Lock(g) ==
    /\ calls[g].pc = "lock"
    /\ metaMu = "free"
    /\ metaMu' = "held"
    /\ calls' = [calls EXCEPT ![g].pc = "body"]
    /\ UNCHANGED <<consumerID, groupName, partitions, partitionSubInfo, topicPartitions,
                   brokerPartitions, usedPartitions, indexPartitions, partitionTimeouts,
                   lastConsumed, admitted, clock, last, eventVars, bookVars, lastQuery,
                   decodeVars, evConcVars>>

Run(g) ==
    /\ calls[g].pc = "body"
    /\ LET c == calls[g]
           st == LockedBody(c)
       IN  /\ CommitMaps(st)
           /\ admitted' =
                  IF c.op = "AddNewPartition" /\ GetPartitionKey(c.part) \notin DOMAIN partitions
                  THEN Put(admitted, GetPartitionKey(c.part), c.part)
                  ELSE [k \in (DOMAIN admitted) \cap DOMAIN st.partitions |-> admitted[k]]
           /\ Record(c.op, c.part, <<>>, c.keys, c.rollback, 0, EmptyMap, st)
           /\ calls' = [calls EXCEPT ![g].pc = IF st.status = "blocked" THEN "blocked"
                                               ELSE "unlock"]
    /\ UNCHANGED <<consumerID, groupName, clock, eventVars, bookVars, lastQuery, decodeVars, evConcVars>>

\* The deferred Unlock, on return and on panic.
Unlock(g) ==
    /\ calls[g].pc = "unlock"
    /\ metaMu' = "free"
    /\ calls' = [calls EXCEPT ![g] = NoCall]
    /\ UNCHANGED <<consumerID, groupName, partitions, partitionSubInfo, topicPartitions,
                   brokerPartitions, usedPartitions, indexPartitions, partitionTimeouts,
                   lastConsumed, admitted, clock, last, eventVars, bookVars, lastQuery,
                   decodeVars, evConcVars>>

\* ------------------------------------------ goroutine steps, event queue
\* A goroutine enters an event-queue call.
EvBegin(g) ==
    \E op \in EvOps, event \in Events :
        /\ evCalls[g].pc = "idle"
        /\ op = "OfferEvent" =>
               Len(offered) + Cardinality({h \in EvGoroutines : evCalls[h].op = "OfferEvent"})
                   < MaxOffers
        /\ evCalls' = [evCalls EXCEPT ![g] =
               [NoEvCall EXCEPT !.pc = "lock", !.op = op,
                                !.event = IF op = "OfferEvent" THEN event ELSE Nil]]
        /\ UNCHANGED <<consumerID, groupName, metaVars, clock, last, eventVars, bookVars,
                       lastQuery, decodeVars, calls, eventMu>>

EvLock(g) ==
    /\ evCalls[g].pc = "lock"
    /\ CanLock(eventMu)
    /\ eventMu' = "held"
    /\ evCalls' = [evCalls EXCEPT ![g].pc = "read"]
    /\ UNCHANGED <<consumerID, groupName, metaVars, clock, last, eventVars, bookVars,
                   lastQuery, decodeVars, calls>>

\* OfferEvent's append reads the slice; a pop tests the length and reads element 0,
\* and returns nil without a write when the queue is empty.
EvRead(g) ==
    /\ evCalls[g].pc = "read"
    /\ evCalls' = [evCalls EXCEPT ![g] =
           IF @.op = "OfferEvent" THEN [@ EXCEPT !.pc = "write", !.seen = rebalanceResults]
           ELSE [@ EXCEPT !.pc = IF Len(rebalanceResults) = 0 THEN "unlock" ELSE "write",
                          !.event = PopHead(rebalanceResults).event]]
    /\ UNCHANGED <<consumerID, groupName, metaVars, clock, last, eventVars, bookVars,
                   lastQuery, decodeVars, calls, eventMu>>

\* OfferEvent stores the appended slice; a pop stores r.rebalanceResults[1:].
EvWrite(g) ==
    /\ evCalls[g].pc = "write"
    /\ IF evCalls[g].op = "OfferEvent"
       THEN /\ rebalanceResults' = Append(evCalls[g].seen, evCalls[g].event)
            /\ offered' = Append(offered, evCalls[g].event)
            /\ UNCHANGED returned
       ELSE /\ rebalanceResults' = PopHead(rebalanceResults).rest
            /\ returned' = Append(returned, evCalls[g].event)
            /\ UNCHANGED offered
    /\ evCalls' = [evCalls EXCEPT ![g].pc = "unlock"]
    /\ UNCHANGED <<consumerID, groupName, metaVars, clock, last, everCleared, clearedLen,
                   lastEv, bookVars, lastQuery, decodeVars, calls, eventMu>>

\* The deferred Unlock; the call returns.
EvUnlock(g) ==
    /\ evCalls[g].pc = "unlock"
    /\ eventMu' = "free"
    /\ evCalls' = [evCalls EXCEPT ![g] = NoEvCall]
    /\ UNCHANGED <<consumerID, groupName, metaVars, clock, last, eventVars, bookVars,
                   lastQuery, decodeVars, calls>>

Next ==
    \/ SetConsumerInfo
    \/ AddNewPartition
    \/ RemoveAndGetPartition
    \/ RemovePartition
    \/ HandleExpiredPartitions
    \/ LeasePartition
    \/ TimerFire
    \/ TimerDrain
    \/ Tick

Spec == Init /\ [][Next]_vars

NextEvent ==
    \/ OfferEvent
    \/ TakeEvent
    \/ PollEventResult
    \/ ClearEvent

SpecEvent == Init /\ [][NextEvent]_vars

\* The ledger next to admissions and removals.
NextBook ==
    \/ IsFirstRegister
    \/ AddNewPartition
    \/ RemovePartition

SpecBook == Init /\ [][NextBook]_vars

\* The queries next to admissions and removals.
NextQuery ==
    \/ AddNewPartition
    \/ RemovePartition
    \/ FilterPartitions
    \/ GetPartitionByBroker

SpecQuery == Init /\ [][NextQuery]_vars

\* One decoder on one stream.
NextDecode ==
    \/ New
    \/ Decode

SpecDecode == Init /\ [][NextDecode]_vars

\* Two goroutines calling admissions and removals, next to leases and
\* SetConsumerInfo.
NextConc ==
    \/ \E g \in Goroutines : Begin(g)
    \/ \E g \in Goroutines : ReadGroup(g)
    \/ \E g \in Goroutines : Lock(g)
    \/ \E g \in Goroutines : Run(g)
    \/ \E g \in Goroutines : Unlock(g)
    \/ StoreConsumerID
    \/ StoreGroupName
    \/ LeasePartition

SpecConc == Init /\ [][NextConc]_vars

\* Goroutines calling OfferEvent, TakeEvent and PollEventResult.
NextEventConc ==
    \/ \E g \in EvGoroutines : EvBegin(g)
    \/ \E g \in EvGoroutines : EvLock(g)
    \/ \E g \in EvGoroutines : EvRead(g)
    \/ \E g \in EvGoroutines : EvWrite(g)
    \/ \E g \in EvGoroutines : EvUnlock(g)

SpecEventConc == Init /\ [][NextEventConc]_vars

\* ================================================================== claims

\* Number of times partition p is listed under broker b in the map m.
CountIn(m, b, p) ==
    IF b \in DOMAIN m THEN Cardinality({i \in DOMAIN m[b] : m[b][i] = p}) ELSE 0

ListedKeys(ps) == {GetPartitionKey(ps[i]) : i \in DOMAIN ps}

\* C1: after every operation the key set of partitions equals the key set of
\* partitionSubInfo.
C1_SameKeySet == DOMAIN partitions = DOMAIN partitionSubInfo

\* C3: no key is in both usedPartitions and indexPartitions, and every key of
\* either is a key of partitions.
C3_UsedIdleDisjoint ==
    /\ (DOMAIN usedPartitions) \cap indexPartitions = {}
    /\ ((DOMAIN usedPartitions) \cup indexPartitions) \subseteq DOMAIN partitions

\* An AddNewPartition call has returned with its key idle while another key is leased.
C3_Witness ==
    /\ last.op = "AddNewPartition"
    /\ last.status = "ok"
    /\ GetPartitionKey(last.part) \in indexPartitions
    /\ \E k \in DOMAIN usedPartitions : k # GetPartitionKey(last.part)

\* C4: AddNewPartition(p) for a key not yet in the cache stores p under its key
\* in partitions, a SubscribeInfo of p with the cache's consumerID and groupName
\* in partitionSubInfo, and the key in the buckets of p's topic and p's broker.
C4_AdmitStoresPartition ==
    [][(/\ last'.op = "AddNewPartition"
        /\ AddNewPartitionCall(last'.part)
        /\ GetPartitionKey(last'.part) \notin DOMAIN partitions)
       => LET p == last'.part
              k == GetPartitionKey(p)
          IN  /\ k \in DOMAIN partitions'
              /\ partitions'[k] = p
              /\ k \in DOMAIN partitionSubInfo'
              /\ partitionSubInfo'[k] = NewSubscribeInfo(p, consumerID, groupName)
              /\ GetTopic(p) \in DOMAIN topicPartitions'
              /\ k \in topicPartitions'[GetTopic(p)]
              /\ GetBroker(p) \in DOMAIN brokerPartitions'
              /\ k \in brokerPartitions'[GetBroker(p)]]_vars

\* C5: AddNewPartition is idempotent: after each call the key is idle and not
\* leased, and a second call in a row with the same key changes nothing.
C5_AdmitIdempotent ==
    [][(last'.op = "AddNewPartition" /\ AddNewPartitionCall(last'.part))
       => LET k == GetPartitionKey(last'.part)
          IN  /\ k \in indexPartitions'
              /\ k \notin DOMAIN usedPartitions'
              /\ (last.op = "AddNewPartition" /\ GetPartitionKey(last.part) = k)
                 => UNCHANGED metaVars]_vars

\* C6: RemoveAndGetPartition sets the lastConsumed flag of a cached, leased
\* partition to the negation of processingRollback and leaves the flag of a
\* cached partition that is not leased as it was.
C6_RollbackFlag ==
    [][(/\ last'.op = "RemoveAndGetPartition"
        /\ RemoveAndGetPartitionCall(last'.subs, last'.rollback, last'.out0))
       => \A k \in ListedKeys(last'.subs) \cap DOMAIN partitions :
            lastConsumed'[admitted[k]] =
                IF k \in DOMAIN usedPartitions THEN ~last'.rollback
                ELSE lastConsumed[admitted[k]]]_vars

\* C7: RemoveAndGetPartition appends the partition of every listed key that was
\* cached once to out, under its broker, adds nothing else to out, and leaves no
\* listed key in any map.
C7_RemoveAndGet ==
    [][(/\ last'.op = "RemoveAndGetPartition"
        /\ RemoveAndGetPartitionCall(last'.subs, last'.rollback, last'.out0))
       => /\ \A b \in Brokers, p \in PartObjs :
               CountIn(last'.out, b, p) =
                   CountIn(last'.out0, b, p)
                   + (IF b = GetBroker(p)
                         /\ \E k \in ListedKeys(last'.subs) \cap DOMAIN partitions :
                                admitted[k] = p
                      THEN 1 ELSE 0)
          /\ \A k \in ListedKeys(last'.subs) :
               /\ k \notin DOMAIN partitions'
               /\ k \notin DOMAIN partitionSubInfo'
               /\ \A t \in DOMAIN topicPartitions' : k \notin topicPartitions'[t]
               /\ \A b \in DOMAIN brokerPartitions' : k \notin brokerPartitions'[b]
               /\ k \notin DOMAIN usedPartitions'
               /\ k \notin indexPartitions'
               /\ k \notin DOMAIN partitionTimeouts']_vars

\* C8: HandleExpiredPartitions(wait) at time now reclaims the lease taken at T
\* iff now - T > wait: a reclaimed key becomes idle, stays cached and its
\* partition gets lastConsumed = FALSE; any other lease, its timestamp and its
\* partition's flag are untouched.
C8_ExpiryReclaims ==
    [][(/\ last'.op = "HandleExpiredPartitions"
        /\ \E order1 \in Orders(DOMAIN usedPartitions) :
             \E order2 \in Orders(ExpiredLeases(usedPartitions, CurrMillis(clock), last'.wait)) :
               HandleExpiredPartitionsCall(last'.wait, order1, order2))
       => \A k \in DOMAIN usedPartitions :
            IF (CurrMillis(clock) - usedPartitions[k]) * Millisecond > last'.wait
            THEN /\ k \notin DOMAIN usedPartitions'
                 /\ k \in indexPartitions'
                 /\ k \in DOMAIN partitions'
                 /\ lastConsumed'[admitted[k]] = FALSE
            ELSE /\ k \in DOMAIN usedPartitions'
                 /\ usedPartitions'[k] = usedPartitions[k]
                 /\ lastConsumed'[admitted[k]] = lastConsumed[admitted[k]]]_vars

\* C9: the event queue is FIFO: as long as ClearEvent was not called, the events
\* returned by TakeEvent and PollEventResult, followed by the events still
\* queued, are the offered events in offer order.
C9_QueueFifo == ~everCleared => offered = returned \o rebalanceResults

\* Two different events were returned, the second by PollEventResult, and a
\* third is still queued.
C9_Witness ==
    /\ ~everCleared
    /\ lastEv.op = "PollEventResult"
    /\ Len(returned) >= 2
    /\ returned[1] # returned[2]
    /\ rebalanceResults # <<>>

\* C10: TakeEvent and PollEventResult on an empty queue return nil and leave the
\* queue empty; after ClearEvent and before any OfferEvent they return nil; the
\* first event offered after a ClearEvent is the next event returned.
C10_EmptyAndClear ==
    lastEv.op \in {"TakeEvent", "PollEventResult"}
    => /\ lastEv.pre = <<>> => (lastEv.event = Nil /\ rebalanceResults = <<>>)
       /\ (lastEv.preCleared /\ lastEv.preOffered = <<>>) => lastEv.event = Nil
       /\ (lastEv.preCleared /\ lastEv.preOffered # <<>> /\ lastEv.preReturned = <<>>)
          => lastEv.event = lastEv.preOffered[1]

\* TakeEvent returned nil right after a ClearEvent that emptied a queue of two
\* or more events.
C10_Witness ==
    /\ lastEv.op = "TakeEvent"
    /\ lastEv.event = Nil
    /\ lastEv.preCleared
    /\ lastEv.preOffered = <<>>
    /\ clearedLen >= 2

\* C11: IsFirstRegister(key) returns false on the first call ever made with the
\* key and true on every later call with it, whatever else was called in between.
C11_FirstFalseThenTrue ==
    lastReg.key # NoArg => (lastReg.result = ~lastReg.first)

\* C12: FilterPartitions(candidates) returns, in candidate order, exactly the
\* partitions of the candidates whose key is not a key of `partitions` (all of
\* them when `partitions` is empty), and changes no cache state.
C12_FilterPartitions ==
    [][(lastQuery'.op = "FilterPartitions" /\ FilterPartitionsCall(lastQuery'.subs))
       => /\ lastQuery'.result
               = SelectSeq(lastQuery'.subs, LAMBDA p : GetPartitionKey(p) \notin DOMAIN partitions)
          /\ (partitions = EmptyMap => lastQuery'.result = lastQuery'.subs)
          /\ UNCHANGED <<metaVars, bookVars, eventVars, consumerID, groupName>>]_vars

\* A query on a non-empty cache with one cached and one uncached candidate key.
C12_Witness ==
    /\ lastQuery.op = "FilterPartitions"
    /\ lastQuery.cached # {}
    /\ Len(lastQuery.subs) = 2
    /\ GetPartitionKey(lastQuery.subs[1]) \in lastQuery.cached
    /\ GetPartitionKey(lastQuery.subs[2]) \notin lastQuery.cached
    /\ lastQuery.result = <<lastQuery.subs[2]>>

\* C13: GetPartitionByBroker(b) returns exactly the Partitions admitted with
\* owning broker b and not removed since, one entry per such key, and an empty
\* result when the cache holds no partition of b.
C13_ByBroker ==
    [][(lastQuery' # lastQuery /\ lastQuery'.op = "GetPartitionByBroker")
       => LET own == {k \in DOMAIN admitted : GetBroker(admitted[k]) = lastQuery'.broker}
              result == lastQuery'.result
          IN  /\ Len(result) = Cardinality(own)
              /\ {result[i] : i \in DOMAIN result} = {admitted[k] : k \in own}]_vars

\* The bytes a slice shows now: its own, or the window of the array it shares
\* with the decoder's buffer, a left-behind array or the current one.
Bytes(s) ==
    IF s.shared
    THEN SubSeq(IF s.array <= Len(retired) THEN retired[s.array] ELSE msg, s.lo + 1, s.hi)
    ELSE s.bytes

\* C14: Decode on a stream that starts with a well-formed frame returns the
\* frame's serial number and the concatenation of its chunk payloads in order,
\* for every chunk count and chunk length, and consumes exactly the frame's bytes.
C14_DecodeFrame ==
    (lastDecode.op = "Decode" /\ lastDecode.first /\ wire.kind = "frame")
    => /\ lastDecode.err = Nil
       /\ Len(lastDecode.resp) = 1
       /\ IntOf(lastDecode.resp[1].serialNo) = wire.serialNo
       /\ Bytes(lastDecode.resp[1].responseBuf) = Flatten(wire.chunks)
       /\ lastDecode.rest = wire.tail

\* A decoded frame of two non-empty chunks that outgrew the buffer, with bytes
\* after it.
C14_Witness ==
    /\ lastDecode.op = "Decode" /\ lastDecode.first /\ wire.kind = "frame"
    /\ Len(wire.chunks) = 2 /\ wire.chunks[1] # <<>> /\ wire.chunks[2] # <<>>
    /\ wire.chunks[1] # wire.chunks[2]
    /\ wire.tail # <<>>
    /\ Len(msg) > MsgSize
    /\ Len(lastDecode.resp) = 1
    /\ Bytes(lastDecode.resp[1].responseBuf) = wire.chunks[1] \o wire.chunks[2]

\* C15: Decode returns an error and no response when the first 4 bytes are not
\* the token and when the stream ends before the frame is complete, at any
\* stage; no response is built from a partial frame.
C15_DecodeError ==
    (lastDecode.op = "Decode" /\ lastDecode.first /\ wire.kind \in {"cut", "badtoken"})
    => (lastDecode.err # Nil /\ lastDecode.resp = NoResponse)

\* A stream that ended inside the body of its second chunk.
C15_Witness ==
    /\ lastDecode.op = "Decode" /\ lastDecode.first /\ wire.kind = "cut"
    /\ Len(wire.chunks) = 2
    /\ wire.keep = Len(FrameBytes(wire.token, wire.serialNo, wire.chunks)) - 1
    /\ Len(wire.chunks[2]) > 1
    /\ lastDecode.err = "ErrUnexpectedEOF"

\* C16: when AddNewPartition and a removal of the same key run concurrently, next
\* to other metadata operations, every state another caller can observe under the
\* metadata lock satisfies the keyset, secondary-index and used/idle invariants
\* (and is the state of some serial order of the calls).
C16_ObservableInvariants ==
    metaMu = "free"
    => /\ DOMAIN partitionSubInfo = DOMAIN partitions
       /\ \A k \in DOMAIN partitions :
              /\ \E t \in DOMAIN topicPartitions : k \in topicPartitions[t]
              /\ \E b \in DOMAIN brokerPartitions : k \in brokerPartitions[b]
       /\ (DOMAIN usedPartitions) \cap indexPartitions = {}
       /\ (DOMAIN usedPartitions) \cup indexPartitions \subseteq DOMAIN partitions

\* C17: the secondary indices are complete: every key k of `partitions` is a
\* member of topicPartitions[topic of k] and of brokerPartitions[broker of k]; after
\* admitting two keys of one topic the topic's bucket holds both.
C17_IndicesComplete ==
    \A k \in DOMAIN partitions :
        /\ k \in DOMAIN admitted
        /\ GetTopic(admitted[k]) \in DOMAIN topicPartitions
        /\ k \in topicPartitions[GetTopic(admitted[k])]
        /\ GetBroker(admitted[k]) \in DOMAIN brokerPartitions
        /\ k \in brokerPartitions[GetBroker(admitted[k])]

\* C19: every AddNewPartition with a key that is cached and leased ends the
\* lease: afterwards the key is not in usedPartitions, has no entry in
\* partitionTimeouts, is in indexPartitions, and the entries of partitions,
\* partitionSubInfo and both secondary indices are as before (the stored
\* Partition is not replaced by the offered one).
C19_ReadmitEndsLease ==
    [][(/\ last'.op = "AddNewPartition"
        /\ AddNewPartitionCall(last'.part)
        /\ GetPartitionKey(last'.part) \in DOMAIN partitions
        /\ GetPartitionKey(last'.part) \in DOMAIN usedPartitions)
       => /\ GetPartitionKey(last'.part) \notin DOMAIN usedPartitions'
          /\ GetPartitionKey(last'.part) \notin DOMAIN partitionTimeouts'
          /\ GetPartitionKey(last'.part) \in indexPartitions'
          /\ partitions' = partitions
          /\ partitionSubInfo' = partitionSubInfo
          /\ topicPartitions' = topicPartitions
          /\ brokerPartitions' = brokerPartitions]_vars

\* C20: RemovePartition(keys) removes each listed key from partitions,
\* partitionSubInfo, both secondary indices, usedPartitions, indexPartitions and
\* partitionTimeouts, changes no lastConsumed flag, and with listed keys that are
\* not cached it returns without error and leaves every map unchanged.
C20_RemovePartition ==
    [][(last'.op = "RemovePartition" /\ RemovePartitionCall(last'.keys))
       => LET listed == {last'.keys[i] : i \in DOMAIN last'.keys}
          IN  /\ \A k \in listed :
                     /\ k \notin DOMAIN partitions'
                     /\ k \notin DOMAIN partitionSubInfo'
                     /\ \A t \in DOMAIN topicPartitions' : k \notin topicPartitions'[t]
                     /\ \A b \in DOMAIN brokerPartitions' : k \notin brokerPartitions'[b]
                     /\ k \notin DOMAIN usedPartitions'
                     /\ k \notin indexPartitions'
                     /\ k \notin DOMAIN partitionTimeouts'
              /\ lastConsumed' = lastConsumed
              /\ (listed \cap DOMAIN partitions = {})
                     => (last'.status = "ok" /\ UNCHANGED metaVars)]_vars

\* C21: resetIdlePartition on a key with an entry in partitionTimeouts always
\* completes and releases the metadata lock, whether the timer is pending, has
\* fired with its value unread, or has fired and its value was consumed, and
\* leaves the key without an entry in partitionTimeouts; no removal, admission or
\* expiry call blocks for ever while it holds the metadata lock.
C21_ResetCompletes ==
    /\ metaMu = "free"
    /\ last.status # "blocked"
    /\ (last.op = "AddNewPartition" /\ last.lease \in {"pending", "fired", "drained"})
           => GetPartitionKey(last.part) \notin DOMAIN partitionTimeouts

\* Number of times e occurs in the sequence q.
Occurs(q, e) == Cardinality({i \in DOMAIN q : q[i] = e})

\* C22: under any interleaving of concurrent OfferEvent, TakeEvent and
\* PollEventResult calls, no event is lost or duplicated: every offered event
\* is returned at most once and the events not yet returned are the queue's
\* content; the calls change no partition, lease or ledger state.
C22_NoLossNoDuplicate ==
    [][(evCalls' # evCalls)
       => /\ \A e \in Events :
                 Occurs(offered', e) = Occurs(returned', e) + Occurs(rebalanceResults', e)
          /\ Nil \notin {returned'[i] : i \in DOMAIN returned'}
          /\ UNCHANGED <<metaVars, bookVars, consumerID, groupName, everCleared>>]_vars

\* Two events were offered and one of them returned, while one goroutine holds
\* the lock inside a pop and the two others wait for it, one to offer and one to pop.
C22_Witness ==
    /\ Len(offered) = 2 /\ offered[1] # offered[2]
    /\ Len(returned) = 1
    /\ \E g, h, i \in EvGoroutines :
           /\ evCalls[g].op = "TakeEvent" /\ evCalls[g].pc = "write"
           /\ evCalls[h].op = "PollEventResult" /\ evCalls[h].pc = "lock"
           /\ evCalls[i].op = "OfferEvent" /\ evCalls[i].pc = "lock"

\* The length of the body of the i-th frame of the stream.
BodyLen(i) == Len(Flatten(wire.frames[i].chunks))

\* The frames of the stream from the i-th on, as bytes.
FramesFrom(i) ==
    Flatten([j \in 1..(Len(wire.frames) - i + 1) |->
                FrameBytes(wire.token, wire.frames[j + i - 1].serialNo,
                           wire.frames[j + i - 1].chunks)])

\* C23: one decoder on a stream of well-formed frames returns, for the i-th
\* Decode call, the serial number and the concatenated body of the i-th frame,
\* whatever the sizes of the earlier frames; the buffer is as long as the largest
\* frame decoded so far needs, and a body returned earlier still reads the same
\* after the later calls.  Only the calls after the last frame fail.
C23_FrameSequence ==
    wire.kind = "frames"
    => /\ Len(responses) <= Len(wire.frames)
       /\ \A i \in DOMAIN responses :
              /\ IntOf(responses[i].serialNo) = wire.frames[i].serialNo
              /\ Bytes(responses[i].responseBuf) = Flatten(wire.frames[i].chunks)
       /\ reader = FramesFrom(Len(responses) + 1)
       /\ \A n \in MsgSize..Len(msg) :
              (\A i \in DOMAIN responses : frameHeadLen + BodyLen(i) <= n) <=> n = Len(msg)
       /\ (lastDecode.op = "Decode" /\ lastDecode.err # Nil)
              => (Len(responses) = Len(wire.frames) /\ lastDecode.err = "EOF")

\* Three frames decoded: the first outgrew the buffer, the second fits with room
\* to spare, the third outgrew the buffer again.
C23_Witness ==
    /\ wire.kind = "frames"
    /\ Len(wire.frames) = 3 /\ Len(responses) = 3
    /\ Len(retired) = 2
    /\ BodyLen(1) > MsgSize - frameHeadLen
    /\ BodyLen(2) = 1
    /\ BodyLen(3) > BodyLen(1)
    /\ Len(wire.frames[1].chunks) = 2
    /\ Bytes(responses[1].responseBuf) = wire.frames[1].chunks[1] \o wire.frames[1].chunks[2]

====
